---- MODULE Spec2Model ----
(***************************************************************************)
(* Streaming chat-session state machine of OllamaOnDemand                  *)
(* (src/listeners.py, src/utils.py, src/chatsessions.py,                   *)
(* src/multimodal.py).                                                     *)
(*                                                                         *)
(* Text is a sequence of one-character strings, so that the slices, strips *)
(* and comparisons of stream_chat are computed character by character.     *)
(* A chat message is a record whose domain is the set of keys the Python   *)
(* dict holds: `del msg["thinking"]` shrinks the domain, and a read of a   *)
(* missing key or of the last element of an empty list raises.             *)
(***************************************************************************)
EXTENDS Integers, Sequences, FiniteSets, TLC

(***************************************************************************)
(* Bounds of the model.                                                    *)
(***************************************************************************)
\* workflow chains (new_message / retry / edit events) started in one run
MaxChains == 2
\* history lists ever created (initial sessions plus new_chat calls)
MaxLists == 2

(***************************************************************************)
(* Text helpers: Python str operations used by stream_chat.                *)
(***************************************************************************)
Whitespace == {" "}

RECURSIVE lstrip(_)
lstrip(s) ==
    IF s # <<>> /\ Head(s) \in Whitespace THEN lstrip(Tail(s)) ELSE s

RECURSIVE rstrip(_)
rstrip(s) ==
    IF s # <<>> /\ s[Len(s)] \in Whitespace
    THEN rstrip(SubSeq(s, 1, Len(s) - 1))
    ELSE s

\* s[:n]
Prefix(s, n) == SubSeq(s, 1, IF n < Len(s) THEN n ELSE Len(s))
\* s[n:]
DropFirst(s, n) == SubSeq(s, n + 1, Len(s))
\* s[-n:]
Suffix(s, n) == SubSeq(s, (IF Len(s) > n THEN Len(s) - n ELSE 0) + 1, Len(s))
\* s[:-n]
DropLast(s, n) == SubSeq(s, 1, IF Len(s) > n THEN Len(s) - n ELSE 0)

OpenTag == <<"<", "t", "h", "i", "n", "k", ">">>
CloseTag == <<"<", "/", "t", "h", "i", "n", "k", ">">>
OpenTagLen == 7
CloseTagLen == 8

ErrorMarker ==
    <<"[Error] An error has occurred! Please see error message and and try again!">>

(***************************************************************************)
(* Python list and dict helpers.                                           *)
(***************************************************************************)
\* h[:n-1]: a slice that stops one element early
PySliceTo_Short(h, n) ==
    LET stop == IF n - 1 < 0 THEN Len(h) + n - 1 ELSE n - 1
    IN  SubSeq(h, 1, IF stop < 0 THEN 0 ELSE IF stop > Len(h) THEN Len(h) ELSE stop)

\* h[:n+1]: a slice that stops one element late
PySliceTo_Long(h, n) ==
    LET stop == IF n + 1 < 0 THEN Len(h) + n + 1 ELSE n + 1
    IN  SubSeq(h, 1, IF stop < 0 THEN 0 ELSE IF stop > Len(h) THEN Len(h) ELSE stop)

\* h[:n], n possibly negative (counted from the end)
PySliceTo(h, n) ==
    LET stop == IF n < 0 THEN Len(h) + n ELSE n
    IN  SubSeq(h, 1, IF stop < 0 THEN 0 ELSE IF stop > Len(h) THEN Len(h) ELSE stop)

\* d[k] = v (the key is created when missing)
SetKey(d, k, v) == [f \in DOMAIN d \cup {k} |-> IF f = k THEN v ELSE d[f]]
\* del d[k]
DelKey(d, k) == [f \in DOMAIN d \ {k} |-> d[f]]
\* d.get(k) is truthy
Truthy(d, k) == k \in DOMAIN d /\ d[k] # <<>>

ReplaceLast(h, m) == [h EXCEPT ![Len(h)] = m]

(***************************************************************************)
(* The generation capability.  A response is a script of atoms, each one   *)
(* character of the thinking channel ("t") or of the content channel       *)
(* ("c"); a chunk is the next k atoms of the script, so that every split   *)
(* of the response into increments is a behaviour.                         *)
(***************************************************************************)
Atoms(ch, s) == [i \in 1..Len(s) |-> <<ch, s[i]>>]

PlainScript == Atoms("c", <<"a", "b">>)
TaggedScript == Atoms("c", OpenTag \o <<"r">> \o CloseTag \o <<"a">>)
ChannelScript == Atoms("t", <<"p">>) \o Atoms("c", <<"a">>)

SpacedTagScript == Atoms("c", OpenTag \o <<"r">> \o CloseTag \o <<" ", "a">>)

\* reasoning on the thinking channel, then a tagged block in the content
MixedScript ==
    Atoms("t", <<"p">>) \o Atoms("c", OpenTag \o <<"r">> \o CloseTag \o <<"a">>)

Scripts ==
    <<PlainScript, TaggedScript, ChannelScript, SpacedTagScript, MixedScript>>

RECURSIVE Channel(_, _)
Channel(ch, atoms) ==
    IF atoms = <<>> THEN <<>>
    ELSE (IF Head(atoms)[1] = ch THEN <<Head(atoms)[2]>> ELSE <<>>)
         \o Channel(ch, Tail(atoms))

\* chunk.message of the increment made of atoms off+1 .. off+k of script s
Chunk(s, off, k) ==
    LET atoms == SubSeq(Scripts[s], off + 1, off + k)
    IN  [thinking |-> Channel("t", atoms), content |-> Channel("c", atoms)]

(***************************************************************************)
(* stream_chat, the body of the chunk loop (listeners.py 76-111) as a      *)
(* function of the open message, the local is_thinking flag and the chunk. *)
(* raised: the statement raised KeyError (a missing "thinking" key).       *)
(***************************************************************************)
\* thinking.rstrip()[-8:] == "</think>"
EndsWithCloseTag(t) == Suffix(rstrip(t), CloseTagLen) = CloseTag
\* thinking[:-8], without the rstrip
StripCloseTag_NoTrim(t) == DropLast(t, CloseTagLen)
\* thinking.rstrip()[:-8]
StripCloseTag(t) == DropLast(rstrip(t), CloseTagLen)
\* content.lstrip()[:7] == "<think>"
StartsWithOpenTag(c) == Prefix(lstrip(c), OpenTagLen) = OpenTag
\* content.lstrip()[7:]
AfterOpenTag(c) == DropFirst(lstrip(c), OpenTagLen)

Raised(msg, flag) == [raised |-> TRUE, msg |-> msg, is_thinking |-> flag]
Applied(msg, flag) == [raised |-> FALSE, msg |-> msg, is_thinking |-> flag]

\* lines 79-81: a non-empty thinking delta always goes to "thinking"
ThinkingDelta(msg, flag, chunk) ==
    IF "thinking" \notin DOMAIN msg
    THEN Raised(msg, flag)
    ELSE Applied([msg EXCEPT !.thinking = @ \o chunk.thinking], flag)

\* lines 87-97: is_thinking is on
ContentWhileThinking(msg, chunk) ==
    IF "thinking" \notin DOMAIN msg
    THEN Raised(msg, TRUE)
    ELSE LET t == msg.thinking \o chunk.content
         IN  IF EndsWithCloseTag(t)
             THEN Applied([msg EXCEPT !.thinking = StripCloseTag(t)], FALSE)
             ELSE Applied([msg EXCEPT !.thinking = t], TRUE)

\* ContentDelta with the accumulated content and the delta in the wrong order
ContentDelta_Prepend(msg, chunk) ==
    LET c == chunk.content \o msg.content
    IN  IF StartsWithOpenTag(c)
        THEN Applied(SetKey([msg EXCEPT !.content = <<>>], "thinking", AfterOpenTag(c)),
                     TRUE)
        ELSE Applied([msg EXCEPT !.content = c], FALSE)

\* lines 100-111: is_thinking is off
ContentDelta(msg, chunk) ==
    LET c == msg.content \o chunk.content
    IN  IF StartsWithOpenTag(c)
        THEN Applied(SetKey([msg EXCEPT !.content = <<>>], "thinking", AfterOpenTag(c)),
                     TRUE)
        ELSE Applied([msg EXCEPT !.content = c], FALSE)

HandleChunk(msg, flag, chunk) ==
    IF chunk.thinking # <<>> THEN ThinkingDelta(msg, flag, chunk)
    ELSE IF flag THEN ContentWhileThinking(msg, chunk)
    ELSE ContentDelta(msg, chunk)

\* DropEmptyThinking that keeps an empty field
DropEmptyThinking_Never(msg) == msg

\* DropEmptyThinking that drops the field whatever it holds
DropEmptyThinking_Always(msg) == DelKey(msg, "thinking")

\* lines 127-129: raises KeyError when the key is missing (not called then)
DropEmptyThinking(msg) ==
    IF msg.thinking = <<>> THEN DelKey(msg, "thinking") ELSE msg

\* WriteErrorMarker that appends the marker to the partial content
WriteErrorMarker_Append(msg) == [msg EXCEPT !.content = @ \o ErrorMarker]

\* WriteErrorMarker that also empties the accumulated thinking
WriteErrorMarker_ClearThinking(msg) ==
    [msg EXCEPT !.content = ErrorMarker, !.thinking = <<>>]

\* line 120
WriteErrorMarker(msg) == [msg EXCEPT !.content = ErrorMarker]

\* a placeholder with the role of the user
Placeholder_AsUser == [role |-> "user", content |-> <<>>, thinking |-> <<>>]

Placeholder == [role |-> "assistant", content |-> <<>>, thinking |-> <<>>]

(***************************************************************************)
(* multimodal.format_chat_upload: a file is named by its kind; "img" is a  *)
(* binary file with no listed extension, "txt" a text file, "pdf" a listed *)
(* extension whose upload handler leaves the message alone.                *)
(***************************************************************************)
IsImage(f) == f = "img"

format_chat_upload(chat) ==
    LET images == SelectSeq(chat.files, IsImage)
    IN  IF images = <<>> THEN chat
        ELSE IF images = chat.files
             THEN DelKey(SetKey(chat, "images", images), "files")
             ELSE chat

\* multimodal.format_chat_stream: the message with each image file added to
\* "images" and each text file added to "txt", followed by one user message
\* per text file
format_chat_stream(chat) ==
    IF ~Truthy(chat, "files") THEN <<chat>>
    ELSE LET imgs == SelectSeq(chat.files, IsImage)
             txts == SelectSeq(chat.files, LAMBDA f : ~IsImage(f))
             had == IF Truthy(chat, "images") THEN chat.images ELSE <<>>
             c1 == IF imgs = <<>> THEN chat ELSE SetKey(chat, "images", had \o imgs)
             c2 == IF txts = <<>> THEN c1 ELSE SetKey(c1, "txt", txts)
         IN  <<c2>> \o [j \in 1..Len(txts) |-> [role |-> "user", content |-> <<txts[j]>>]]

\* utils.chat_history_stream: every message of the list, the user messages
\* expanded by format_chat_stream
RECURSIVE chat_history_stream(_)
chat_history_stream(h) ==
    IF h = <<>> THEN <<>>
    ELSE (IF Head(h).role = "user" THEN format_chat_stream(Head(h)) ELSE <<Head(h)>>)
         \o chat_history_stream(Tail(h))

UserMessage(text, files) ==
    IF Len(files) > 0
    THEN format_chat_upload([role |-> "user", content |-> text, files |-> files])
    ELSE [role |-> "user", content |-> text]

(***************************************************************************)
(* utils.chat_history_display: the number of bubbles a message takes.      *)
(***************************************************************************)
ExtraSlots(m) ==
    IF m.role # "user" THEN 0
    ELSE IF Truthy(m, "images") THEN 1
    ELSE IF Truthy(m, "files") THEN Len(m.files)
    ELSE 0

RECURSIVE DisplayLen(_)
DisplayLen(h) == IF h = <<>> THEN 0 ELSE 1 + ExtraSlots(Head(h)) + DisplayLen(Tail(h))

\* utils.chat_history_display: the bubbles of the displayed chat in order, each
\* named by the raw index (0-based) of its message and by what it shows; from
\* is the raw index of Head(h).  One image or gallery bubble for "images",
\* else one file bubble per entry of "files", then the message itself.
RECURSIVE chat_history_display(_, _)
chat_history_display(h, from) ==
    IF h = <<>> THEN <<>>
    ELSE LET m == Head(h)
             extra ==
                 IF m.role # "user" THEN <<>>
                 ELSE IF Truthy(m, "images") THEN <<[raw |-> from, kind |-> "image"]>>
                 ELSE IF Truthy(m, "files")
                      THEN [j \in 1..Len(m.files) |-> [raw |-> from, kind |-> "file"]]
                 ELSE <<>>
         IN  extra \o <<[raw |-> from, kind |-> "text"]>>
                   \o chat_history_display(Tail(h), from + 1)

\* the display index (0-based) of the text bubble of raw message r
TextBubble(h, r) ==
    LET d == chat_history_display(h, 0)
    IN  (CHOOSE p \in 1..Len(d) : d[p] = [raw |-> r, kind |-> "text"]) - 1

\* the raw indices (0-based) of the user messages of h
UserRaw(h) == {r \in 0..(Len(h) - 1) : h[r + 1].role = "user"}

\* FindIndex that counts the file bubbles of a message as one bubble
RECURSIVE FindIndex_FilesAsOne(_, _, _)
FindIndex_FilesAsOne(h, i, index) ==
    IF i > index THEN [ok |-> TRUE, index |-> index]
    ELSE IF i >= Len(h) THEN [ok |-> FALSE, index |-> index]
    ELSE IF Truthy(h[i + 1], "images") THEN FindIndex_FilesAsOne(h, i + 1, index - 1)
    ELSE IF Truthy(h[i + 1], "files") THEN FindIndex_FilesAsOne(h, i + 1, index - 1)
    ELSE FindIndex_FilesAsOne(h, i + 1, index)

(***************************************************************************)
(* The index loop of retry and edit (listeners.py 204-211, 234-241), with  *)
(* 0-based i and index as in the source.  ok = FALSE: chat_history[i]      *)
(* raised IndexError.                                                      *)
(***************************************************************************)
RECURSIVE FindIndex(_, _, _)
FindIndex(h, i, index) ==
    IF i > index THEN [ok |-> TRUE, index |-> index]
    ELSE IF i >= Len(h) THEN [ok |-> FALSE, index |-> index]
    ELSE IF Truthy(h[i + 1], "images") THEN FindIndex(h, i + 1, index - 1)
    ELSE IF Truthy(h[i + 1], "files")
         THEN FindIndex(h, i + 1, index - Len(h[i + 1].files))
    ELSE FindIndex(h, i + 1, index)

(***************************************************************************)
(* State.                                                                  *)
(*   chats         chatsessions.chats: the session list; id names the      *)
(*                 Python list object that holds the session's history     *)
(*   chat_index    self.chat_index                                         *)
(*   chat_title    self.chat_title                                         *)
(*   chat_history  self.chat_history: a reference to a history list        *)
(*   is_streaming  self.is_streaming                                       *)
(*   chains        the workflow chains started by new_message/retry/edit:  *)
(*                 where each stands in stream_chat, its response, its     *)
(*                 local is_thinking, the warnings it raised               *)
(*                 and, for the properties, what the chain has seen:       *)
(*                 open (the list and position of the placeholder its      *)
(*                 handler appended), stopped (stop_stream_chat ran while  *)
(*                 the chain was in the chunk loop, where it still is),    *)
(*                 request (the messages passed to client.chat, while the  *)
(*                 chain is in the chunk loop),                            *)
(*                 outcome                                                 *)
(*   nchains       chains started so far                                   *)
(*   nlists        history lists created so far                            *)
(*   controls      the left sidebar as last rendered in the browser:       *)
(*                 whether chat_selector and new_btn are interactive       *)
(*   workflow      for every chain, how far the steps that                 *)
(*                 workflow_basic_streaming puts around stream_chat have   *)
(*                 run, and what update_chat_selector did                  *)
(*   stop_workflow the same for the workflow of the stop event             *)
(* A session title is text, as message content is.                         *)
(***************************************************************************)
VARIABLES chats, chat_index, chat_title, chat_history, is_streaming,
          chains, nchains, nlists, controls, workflow, stop_workflow

vars == <<chats, chat_index, chat_title, chat_history, is_streaming,
          chains, nchains, nlists, controls, workflow, stop_workflow>>

ChainIds == 1..MaxChains

NoChain ==
    [kind |-> "none", pc |-> "idle", script |-> 0, off |-> 0,
     is_thinking |-> FALSE, warnings |-> 0, outcome |-> "none",
     open |-> <<0, 0>>, stopped |-> FALSE, request |-> <<>>]

\* the session whose history list self.chat_history refers to
Cur == CHOOSE i \in 1..Len(chats) : chats[i].id = chat_history
History == chats[Cur].history
SetHistory(h) == [chats EXCEPT ![Cur].history = h]

\* both controls interactive, as built by ui_builders
AllEnabled == [chat_selector |-> TRUE, new_btn |-> TRUE]
\* utils.enable_components
enable_components(interactive) ==
    [chat_selector |-> interactive, new_btn |-> interactive]
\* gr.update(value=self.generate_chat_selector()) sent to chat_selector: the
\* selector is rendered again with interactive=True, the default
RenderSelector(ui) == [ui EXCEPT !.chat_selector = TRUE]

\* pc: "handler" until enable_components(False) has run, then "disabled",
\* "titled" once update_chat_selector has run, "end" after
\* enable_components(True).  title_call: "none", "ok" or "failed", the
\* client.chat call of update_chat_selector; selector_raised: an exception
\* left update_chat_selector; summary: the messages of that call
\* summarized: while the client.chat call of update_chat_selector is in
\* flight (pc "calling"), the transcript whose messages it was given
NoWorkflow ==
    [pc |-> "handler", title_call |-> "none", selector_raised |-> FALSE,
     summary |-> <<>>, summarized |-> 0]
\* pc: "none", "selector" (update_chat_selector is next), "enable";
\* was_streaming: is_streaming when stop_stream_chat was entered;
\* snapshots: the transcript snapshots stop_stream_chat yielded
NoStopWorkflow ==
    [pc |-> "none", was_streaming |-> FALSE, snapshots |-> 0,
     title_call |-> "none", selector_raised |-> FALSE, summary |-> <<>>,
     summarized |-> 0]

InFlight(c) == chains[c].pc \in {"start", "loop", "failed"}
Running(c) == chains[c].pc \in {"loop", "failed"}
Idle == \A c \in ChainIds : ~InFlight(c)

(***************************************************************************)
(* Initial state: chatsessions.chats holding one fresh empty session (what *)
(* chatsessions.new_chat builds), then update_current_chat(0)              *)
(* (main.py 56-60).                                                        *)
(***************************************************************************)
InitChats ==
    { <<[id |-> 1, title |-> <<>>, history |-> <<>>]>> }

Init ==
    /\ chats \in InitChats
    /\ chat_index = 0
    /\ chat_title = chats[1].title
    /\ chat_history = chats[1].id
    /\ is_streaming = FALSE
    /\ chains = [c \in ChainIds |-> NoChain]
    /\ nchains = 0
    /\ nlists = 1
    /\ controls = AllEnabled
    /\ workflow = [c \in ChainIds |-> NoWorkflow]
    /\ stop_workflow = NoStopWorkflow

(***************************************************************************)
(* Transcript editing operations.  Each handler is followed in its         *)
(* workflow by stream_chat (workflow_basic_streaming), whether the handler *)
(* returned or raised: the chain is started in both cases.                 *)
(***************************************************************************)
\* The record of a chain that has ended is kept until the next event starts
\* a chain, and is then reduced to its pc.
Ended(ch) == IF ch.pc \in {"done", "crashed"} THEN [NoChain EXCEPT !.pc = ch.pc] ELSE ch

StartChain(kind, open) ==
    /\ nchains < MaxChains
    /\ nchains' = nchains + 1
    /\ chains' = [c \in ChainIds |->
                     IF c = nchains + 1
                     THEN [NoChain EXCEPT !.kind = kind, !.pc = "start", !.open = open]
                     ELSE Ended(chains[c])]

\* listeners.py 151-191
new_message(text, files) ==
    /\ StartChain("new_message", <<chat_history, Len(History) + 2>>)
    /\ chats' = SetHistory(History \o <<UserMessage(text, files), Placeholder>>)
    /\ is_streaming' = TRUE
    /\ UNCHANGED <<chat_index, chat_title, chat_history, nlists,
                                            controls, workflow, stop_workflow>>

\* listeners.py 193-221
retry(index) ==
    LET r == FindIndex(History, 0, index)
        kept == PySliceTo(History, r.index + 1)
    IN  IF ~r.ok
        THEN /\ StartChain("retry", <<0, 0>>)
             /\ UNCHANGED <<chats, is_streaming, chat_index, chat_title,
                            chat_history, nlists,
                                            controls, workflow, stop_workflow>>
        ELSE /\ StartChain("retry", <<chat_history, Len(kept) + 1>>)
             /\ chats' = SetHistory(kept \o <<Placeholder>>)
             /\ is_streaming' = TRUE
             /\ UNCHANGED <<chat_index, chat_title, chat_history, nlists,
                                            controls, workflow, stop_workflow>>

\* listeners.py 223-252
edit(index, value) ==
    LET r == FindIndex(History, 0, index)
        kept == PySliceTo(History, r.index + 1)
    IN  IF ~r.ok
        THEN /\ StartChain("edit", <<0, 0>>)
             /\ UNCHANGED <<chats, is_streaming, chat_index, chat_title,
                            chat_history, nlists,
                                            controls, workflow, stop_workflow>>
        ELSE IF kept = <<>>
        THEN \* chat_history[-1] of the emptied list raises IndexError
             /\ StartChain("edit", <<0, 0>>)
             /\ chats' = SetHistory(kept)
             /\ UNCHANGED <<is_streaming, chat_index, chat_title, chat_history, nlists,
                                            controls, workflow, stop_workflow>>
        ELSE /\ StartChain("edit", <<chat_history, Len(kept) + 1>>)
             /\ chats' = SetHistory(
                    ReplaceLast(kept, [kept[Len(kept)] EXCEPT !.content = value])
                    \o <<Placeholder>>)
             /\ is_streaming' = TRUE
             /\ UNCHANGED <<chat_index, chat_title, chat_history, nlists,
                                            controls, workflow, stop_workflow>>

\* listeners.py 134-149: the handler, which yields one snapshot of the
\* transcript whatever is_streaming was; wf is the state of the stop event's
\* workflow that the handler leaves behind
StopHandler(wf) ==
    /\ is_streaming' = FALSE
    /\ chains' = [c \in ChainIds |->
                     IF chains[c].pc = "loop"
                     THEN [chains[c] EXCEPT !.stopped = TRUE]
                     ELSE chains[c]]
    /\ stop_workflow' = wf
    /\ UNCHANGED <<chats, chat_index, chat_title, chat_history, nchains, nlists,
                   controls, workflow>>

\* the handler alone
stop_stream_chat == StopHandler(stop_workflow)

\* the handler as register_main wraps it in workflow_after_streaming
\* (listeners.py 914-921): update_chat_selector is next
stop_click ==
    /\ stop_workflow.pc = "none"
    /\ StopHandler([NoStopWorkflow EXCEPT !.pc = "selector",
                                          !.was_streaming = is_streaming,
                                          !.snapshots = 1])

(***************************************************************************)
(* stream_chat (listeners.py 18-132), one action per stretch of code       *)
(* between two suspension points (the wait for the next chunk, a yield).   *)
(***************************************************************************)
\* lines 124-132: runs after the loop, after the except branch's yield and
\* when the failsafe of line 30 skips the request
Cleanup(c, outcome) ==
    /\ is_streaming' = FALSE
    /\ IF History = <<>> \/ "thinking" \notin DOMAIN History[Len(History)]
       THEN \* line 128 raises IndexError / KeyError
            /\ chains' = [chains EXCEPT ![c].pc = "crashed", ![c].outcome = outcome,
                                        ![c].stopped = FALSE, ![c].request = <<>>]
            /\ UNCHANGED chats
       ELSE /\ chains' = [chains EXCEPT ![c].pc = "done", ![c].outcome = outcome,
                                        ![c].stopped = FALSE, ![c].request = <<>>]
            /\ chats' = SetHistory(
                   ReplaceLast(History, DropEmptyThinking(History[Len(History)])))
    /\ UNCHANGED <<chat_index, chat_title, chat_history, nchains, nlists,
                                            controls, workflow, stop_workflow>>

\* lines 117-122: the except branch up to its yield
ExceptBranch(c) ==
    /\ IF History = <<>>
       THEN \* line 120 raises IndexError out of the handler
            /\ chains' = [chains EXCEPT ![c].pc = "crashed", ![c].outcome = "failed",
                                        ![c].stopped = FALSE, ![c].request = <<>>]
            /\ UNCHANGED chats
       ELSE /\ chains' = [chains EXCEPT ![c].pc = "failed", ![c].outcome = "failed",
                                        ![c].warnings = @ + 1, ![c].stopped = FALSE, ![c].request = <<>>]
            /\ chats' = SetHistory(
                   ReplaceLast(History, WriteErrorMarker(History[Len(History)])))
    /\ UNCHANGED <<is_streaming, chat_index, chat_title, chat_history, nchains, nlists,
                                            controls, workflow, stop_workflow>>

\* Each listener runs one call at a time, in the order of its events: the
\* stream_chat steps of two chains of the same kind do not overlap.
Turn(c) ==
    \A d \in ChainIds :
        d # c /\ chains[d].kind = chains[c].kind
            => ~Running(d) /\ (d < c => ~InFlight(d))

\* lines 29-67 without the failsafe of line 30
StreamStart_NoFailsafe(c, s) ==
    /\ chains[c].pc = "start"
    /\ Turn(c)
    /\ chains' = [chains EXCEPT ![c].pc = "loop", ![c].script = s,
                                ![c].request = chat_history_stream(History)]
    /\ UNCHANGED <<chats, is_streaming, chat_index, chat_title,
                   chat_history, nchains, nlists,
                                            controls, workflow, stop_workflow>>

\* lines 29-67
StreamStart(c, s) ==
    /\ chains[c].pc = "start"
    /\ Turn(c)
    /\ IF is_streaming
       THEN /\ chains' = [chains EXCEPT ![c].pc = "loop", ![c].script = s,
                                        ![c].request = chat_history_stream(History)]
            /\ UNCHANGED <<chats, is_streaming, chat_index, chat_title,
                           chat_history, nchains, nlists,
                                            controls, workflow, stop_workflow>>
       ELSE Cleanup(c, "skipped")

\* lines 70-115: the response yields its next chunk, k atoms long
StreamChunk(c, k) ==
    /\ chains[c].pc = "loop"
    /\ chains[c].off + k <= Len(Scripts[chains[c].script])
    /\ IF ~is_streaming
       THEN Cleanup(c, "interrupted")
       ELSE IF History = <<>>
       THEN ExceptBranch(c)
       ELSE LET chunk == Chunk(chains[c].script, chains[c].off, k)
                r == HandleChunk(History[Len(History)], chains[c].is_thinking, chunk)
            IN  IF r.raised
                THEN ExceptBranch(c)
                ELSE /\ chats' = SetHistory(ReplaceLast(History, r.msg))
                     /\ chains' = [chains EXCEPT
                            ![c].off = @ + k,
                            ![c].is_thinking = r.is_thinking]
                     /\ UNCHANGED <<is_streaming, chat_index, chat_title,
                                    chat_history, nchains, nlists,
                                            controls, workflow, stop_workflow>>

\* line 70: the response is exhausted
StreamEnd(c) ==
    /\ chains[c].pc = "loop"
    /\ chains[c].off = Len(Scripts[chains[c].script])
    /\ Cleanup(c, "completed")

\* line 70: the response raises
StreamRaise(c) ==
    /\ chains[c].pc = "loop"
    /\ ExceptBranch(c)

\* lines 124-132 after the yield of line 122
AfterError(c) ==
    /\ chains[c].pc = "failed"
    /\ Cleanup(c, "failed")

(***************************************************************************)
(* Session operations (listeners.py 285-379, utils.py 157-187,             *)
(* chatsessions.py 34-91).                                                 *)
(***************************************************************************)
\* cs_new_chat whose new session already holds a message
cs_new_chat_NotEmpty(cs) ==
    <<[id |-> nlists + 1, title |-> <<>>,
       history |-> <<[role |-> "assistant", content |-> <<"a">>]>>]>> \o cs

\* cs_new_chat that appends the new session at the end of the list
cs_new_chat_Append(cs) == cs \o <<[id |-> nlists + 1, title |-> <<>>, history |-> <<>>]>>

\* chatsessions.new_chat
cs_new_chat(cs) == <<[id |-> nlists + 1, title |-> <<>>, history |-> <<>>]>> \o cs

\* utils.update_current_chat(-1) on the session list cs
update_current_chat_new(cs) ==
    /\ nlists < MaxLists
    /\ nlists' = nlists + 1
    /\ chats' = cs_new_chat(cs)
    /\ chat_index' = 0
    /\ chat_history' = nlists + 1
    /\ chat_title' = <<>>

\* update_current_chat that does not reload the title
update_current_chat_KeepTitle(cs, index) ==
    /\ chats' = cs
    /\ chat_index' = index
    /\ chat_history' = cs[index + 1].id
    /\ chat_title' = chat_title
    /\ UNCHANGED nlists

\* chats[index] of Python: an index from -len to len-1 reads an element,
\* counted from the end when negative; any other index raises IndexError
PyValidIndex(cs, index) == -Len(cs) <= index /\ index < Len(cs)
PyPos(cs, index) == IF index < 0 THEN Len(cs) + index + 1 ELSE index + 1

\* utils.update_current_chat(index) on the session list cs: -1 starts a new
\* chat; any other index is first stored in chat_index, and only then does
\* load_chat read chats[index], which raises for an index Python rejects and
\* leaves chat_history and chat_title as they were
update_current_chat(cs, index) ==
    IF index = -1
    THEN update_current_chat_new(cs)
    ELSE /\ chats' = cs
         /\ chat_index' = index
         /\ chat_history' = IF PyValidIndex(cs, index)
                            THEN cs[PyPos(cs, index)].id ELSE chat_history
         /\ chat_title' = IF PyValidIndex(cs, index)
                          THEN cs[PyPos(cs, index)].title ELSE chat_title
         /\ UNCHANGED nlists

new_chat ==
    /\ update_current_chat_new(chats)
    /\ controls' = RenderSelector(controls)
    /\ UNCHANGED <<is_streaming, chains, nchains, workflow, stop_workflow>>

select_chat(index) ==
    /\ update_current_chat(chats, index)
    /\ UNCHANGED <<is_streaming, chains, nchains, controls, workflow, stop_workflow>>

\* cs_delete_chat that removes the first session whatever the index
cs_delete_chat_First(cs, index) ==
    IF 0 <= index /\ index < Len(cs) THEN Tail(cs) ELSE cs

\* chatsessions.delete_chat
cs_delete_chat(cs, index) ==
    IF 0 <= index /\ index < Len(cs)
    THEN SubSeq(cs, 1, index) \o SubSeq(cs, index + 2, Len(cs))
    ELSE cs

delete_chat(index) ==
    LET cs == cs_delete_chat(chats, index)
    IN  /\ IF Len(cs) = 0 THEN update_current_chat_new(cs)
           ELSE IF chat_index >= index /\ chat_index > 0
                THEN update_current_chat(cs, chat_index - 1)
                ELSE update_current_chat(cs, chat_index)
        /\ controls' = RenderSelector(controls)
        /\ UNCHANGED <<is_streaming, chains, nchains, workflow, stop_workflow>>

\* chatsessions.set_chat_title
set_chat_title(cs, index, title) == [cs EXCEPT ![index + 1].title = title]

\* rename_chat that renames the stored session only
rename_chat_StoreOnly(index, title) ==
    /\ index \in 0..(Len(chats) - 1)
    /\ chats' = set_chat_title(chats, index, title)
    /\ UNCHANGED <<chat_index, chat_title, chat_history, is_streaming, chains,
                   nchains, nlists, controls, workflow, stop_workflow>>

\* listeners.py 318-334
rename_chat(index, title) ==
    /\ index \in 0..(Len(chats) - 1)
    /\ chats' = set_chat_title(chats, index, title)
    /\ chat_title' = IF chat_index = index THEN title ELSE chat_title
    /\ UNCHANGED <<chat_index, chat_history, is_streaming, chains, nchains, nlists,
                   controls, workflow, stop_workflow>>

(***************************************************************************)
(* Title generation (listeners.py 254-283) and the workflow steps around   *)
(* stream_chat and after stop_stream_chat (listeners.py 709-764, 914-921). *)
(* Gradio runs the next step of a workflow when the step before it has     *)
(* ended, whether it returned or raised.                                   *)
(***************************************************************************)
\* the title for which update_chat_selector asks for a summary
NewChatTitle == <<"N", "e", "w", " ", "C", "h", "a", "t">>

SummaryInstruction ==
    [role |-> "user",
     content |-> <<"Summarize this entire conversation with less than six words.">>]

\* self.chat_history + [instruction]: a new list, passed to client.chat
SummaryMessages(h) == h \o <<SummaryInstruction>>

\* the summary request left in the transcript
HistoryAfterSummary_Persist(h) == h \o <<SummaryInstruction>>

\* self.chat_history after the call: the list is neither assigned nor extended
HistoryAfterSummary(h) == h

\* where the first "</think>" at or after position from starts in t, 0 if none
FirstCloseTag(t, from) ==
    LET S == {j \in from..(Len(t) - CloseTagLen + 1) :
                 SubSeq(t, j, j + CloseTagLen - 1) = CloseTag}
    IN  IF S = {} THEN 0 ELSE CHOOSE j \in S : \A k \in S : j <= k

\* re.sub with the greedy pattern "<think>.*</think>": one match, from the
\* first opening tag to the last closing tag
RemoveThinkBlocks_Greedy(t) ==
    LET opens == {i \in 1..Len(t) : /\ i + OpenTagLen - 1 <= Len(t)
                                     /\ SubSeq(t, i, i + OpenTagLen - 1) = OpenTag}
        closes == {j \in 1..Len(t) : /\ j + CloseTagLen - 1 <= Len(t)
                                      /\ SubSeq(t, j, j + CloseTagLen - 1) = CloseTag}
        first == CHOOSE i \in opens : \A m \in opens : i <= m
        last == CHOOSE j \in closes : \A m \in closes : m <= j
    IN  IF opens # {} /\ closes # {} /\ last >= first + OpenTagLen
        THEN SubSeq(t, 1, first - 1) \o DropFirst(t, last + CloseTagLen - 1)
        ELSE t

\* re.sub(r"<think>.*?</think>", "", t, flags=re.DOTALL): every leftmost match,
\* each running to the first closing tag after its opening tag, is removed
RECURSIVE RemoveThinkBlocks(_)
RemoveThinkBlocks(t) ==
    IF t = <<>> THEN <<>>
    ELSE LET j == FirstCloseTag(t, OpenTagLen + 1)
         IN  IF Prefix(t, OpenTagLen) = OpenTag /\ j # 0
             THEN RemoveThinkBlocks(DropFirst(t, j + CloseTagLen - 1))
             ELSE <<Head(t)>> \o RemoveThinkBlocks(Tail(t))

\* str.strip
strip(t) == lstrip(rstrip(t))

\* lines 278-279
TitleFromResponse(content) == strip(RemoveThinkBlocks(content))

\* listeners.py 254-283; reply is what client.chat does when it is called:
\* it returns content, or raises.  Nothing catches the exception, and
\* chat_title is assigned before cs.set_chat_title reads chats[chat_index].
update_chat_selector(reply) ==
    /\ IF chat_title = NewChatTitle
       THEN IF reply.ok
            THEN LET new_title == TitleFromResponse(reply.content)
                     kept == SetHistory(HistoryAfterSummary(History))
                 IN  /\ chat_title' = new_title
                     /\ IF PyValidIndex(kept, chat_index)
                        THEN /\ chats' = set_chat_title(
                                    kept, PyPos(kept, chat_index) - 1, new_title)
                             /\ controls' = RenderSelector(controls)
                        ELSE /\ chats' = kept
                             /\ UNCHANGED controls
            ELSE UNCHANGED <<chats, chat_title, controls>>
       ELSE /\ UNCHANGED <<chats, chat_title>>
            /\ controls' = RenderSelector(controls)
    /\ UNCHANGED <<chat_index, chat_history, is_streaming, chains, nchains, nlists>>

\* what a workflow records of its update_chat_selector step
SelectorRecord(w, reply, pc) ==
    LET called == chat_title = NewChatTitle
    IN  [w EXCEPT !.pc = pc,
                  !.title_call = IF ~called THEN "none"
                                 ELSE IF reply.ok THEN "ok" ELSE "failed",
                  !.selector_raised =
                      called /\ (~reply.ok \/ ~PyValidIndex(chats, chat_index)),
                  !.summary = IF called THEN SummaryMessages(History) ELSE <<>>]

\* workflow_basic_streaming: enable_components(False) after the handler
DisableStep(c) ==
    /\ chains[c].pc = "start"
    /\ workflow[c].pc = "handler"
    /\ controls' = enable_components(FALSE)
    /\ workflow' = [workflow EXCEPT ![c].pc = "disabled"]
    /\ UNCHANGED <<chats, chat_index, chat_title, chat_history, is_streaming,
                   chains, nchains, nlists, stop_workflow>>

\* workflow_after_streaming: update_chat_selector after stream_chat
SelectorStep(c, reply) ==
    /\ chains[c].pc \in {"done", "crashed"}
    /\ workflow[c].pc = "disabled"
    /\ update_chat_selector(reply)
    /\ workflow' = [workflow EXCEPT ![c] = SelectorRecord(@, reply, "titled")]
    /\ UNCHANGED stop_workflow

\* workflow_after_streaming: enable_components(True)
EnableStep(c) ==
    /\ workflow[c].pc = "titled"
    /\ controls' = enable_components(TRUE)
    /\ workflow' = [workflow EXCEPT ![c].pc = "end", ![c].summary = <<>>]
    /\ UNCHANGED <<chats, chat_index, chat_title, chat_history, is_streaming,
                   chains, nchains, nlists, stop_workflow>>

\* the same two steps after stop_stream_chat
StopSelectorStep(reply) ==
    /\ stop_workflow.pc = "selector"
    /\ update_chat_selector(reply)
    /\ stop_workflow' = SelectorRecord(stop_workflow, reply, "enable")
    /\ UNCHANGED workflow

StopEnableStep ==
    /\ stop_workflow.pc = "enable"
    /\ controls' = enable_components(TRUE)
    /\ stop_workflow' = NoStopWorkflow
    /\ UNCHANGED <<chats, chat_index, chat_title, chat_history, is_streaming,
                   chains, nchains, nlists, workflow>>

(***************************************************************************)
(* update_chat_selector in two steps: client.chat (listeners.py 267-273)   *)
(* is a blocking call of a handler that runs on a worker thread, and the   *)
(* handlers of other events run while it waits for the response.           *)
(***************************************************************************)
\* lines 264-273: the test of the title and the request
IssueSummary(w) ==
    [w EXCEPT !.pc = "calling", !.summary = SummaryMessages(History),
              !.summarized = chat_history]

\* lines 276-283: the response has arrived, or client.chat has raised
StoreTitle(reply) ==
    /\ IF reply.ok
       THEN LET new_title == TitleFromResponse(reply.content)
            IN  /\ chat_title' = new_title
                /\ IF PyValidIndex(chats, chat_index)
                   THEN /\ chats' = set_chat_title(
                               chats, PyPos(chats, chat_index) - 1, new_title)
                        /\ controls' = RenderSelector(controls)
                   ELSE UNCHANGED <<chats, controls>>
       ELSE UNCHANGED <<chats, chat_title, controls>>
    /\ UNCHANGED <<chat_index, chat_history, is_streaming, chains, nchains, nlists>>

AfterSummary(w, reply, pc) ==
    [w EXCEPT !.pc = pc,
              !.title_call = IF reply.ok THEN "ok" ELSE "failed",
              !.selector_raised = ~reply.ok \/ ~PyValidIndex(chats, chat_index),
              !.summarized = 0]

SelectorCall(c) ==
    /\ chains[c].pc \in {"done", "crashed"}
    /\ workflow[c].pc = "disabled"
    /\ chat_title = NewChatTitle
    /\ workflow' = [workflow EXCEPT ![c] = IssueSummary(@)]
    /\ UNCHANGED <<chats, chat_index, chat_title, chat_history, is_streaming,
                   chains, nchains, nlists, controls, stop_workflow>>

SelectorReturn(c, reply) ==
    /\ workflow[c].pc = "calling"
    /\ StoreTitle(reply)
    /\ workflow' = [workflow EXCEPT ![c] = AfterSummary(@, reply, "titled")]
    /\ UNCHANGED stop_workflow

StopSelectorCall ==
    /\ stop_workflow.pc = "selector"
    /\ chat_title = NewChatTitle
    /\ stop_workflow' = IssueSummary(stop_workflow)
    /\ UNCHANGED <<chats, chat_index, chat_title, chat_history, is_streaming,
                   chains, nchains, nlists, controls, workflow>>

StopSelectorReturn(reply) ==
    /\ stop_workflow.pc = "calling"
    /\ StoreTitle(reply)
    /\ stop_workflow' = AfterSummary(stop_workflow, reply, "enable")
    /\ UNCHANGED workflow

(***************************************************************************)
(* Inputs of the user events.                                              *)
(***************************************************************************)
UserTexts == {<<"Hi">>}
EditTexts == {<<"Ed">>}
RenameTitles == {<<"T">>}
SentinelTitles == {NewChatTitle}
\* what client.chat does for the summary: a plain answer, an answer after a
\* reasoning block, an answer between two reasoning blocks, an exception
SummaryReplies ==
    {[ok |-> TRUE, content |-> <<"S">>],
     [ok |-> TRUE, content |-> OpenTag \o <<"x">> \o CloseTag \o <<" ", "S">>],
     [ok |-> TRUE, content |-> OpenTag \o <<"x">> \o CloseTag \o <<"U">>
                                \o OpenTag \o <<"y">> \o CloseTag],
     [ok |-> FALSE, content |-> <<>>]}
Uploads == {<<>>, <<"img">>, <<"txt", "img">>}
NoUploads == {<<>>}
ScriptIds == {1, 2, 3}
ShortScriptIds == {1, 3}
PlainScriptIds == {1}
TagScriptIds == {2, 4}
MixedScriptIds == {3, 5}
ChunkLens == 1..Len(TaggedScript)
\* the bubbles of the displayed chat, and one index past them
DisplayIndices == 0..DisplayLen(History)
ChatIndices == 0..(Len(chats) - 1)

UserEvent(uploads) ==
    \/ \E t \in UserTexts, f \in uploads : new_message(t, f)
    \/ \E i \in DisplayIndices : retry(i)
    \/ \E i \in DisplayIndices, v \in EditTexts : edit(i, v)

SessionEvent ==
    \/ new_chat
    \/ \E i \in ChatIndices : select_chat(i)
    \/ \E i \in ChatIndices : delete_chat(i)

StreamStep(scripts) ==
    \/ \E c \in ChainIds, s \in scripts : StreamStart(c, s)
    \/ \E c \in ChainIds, k \in ChunkLens : StreamChunk(c, k)
    \/ \E c \in ChainIds : StreamEnd(c)
    \/ \E c \in ChainIds : StreamRaise(c)
    \/ \E c \in ChainIds : AfterError(c)

(***************************************************************************)
(* Spec: every user event may arrive at any time, as the handlers          *)
(* themselves check nothing.                                               *)
(***************************************************************************)
Next ==
    \/ UserEvent(NoUploads)
    \/ stop_stream_chat
    \/ SessionEvent
    \/ StreamStep(ShortScriptIds)

Spec == Init /\ [][Next]_vars

(***************************************************************************)
(* SingleFlightSpec: the user starts an operation only when no workflow    *)
(* chain is in flight; stop may arrive at any time.                        *)
(***************************************************************************)
SingleFlightNext ==
    \/ Idle /\ UserEvent(Uploads)
    \/ stop_stream_chat
    \/ StreamStep(ScriptIds)

SingleFlightSpec == Init /\ [][SingleFlightNext]_vars

(***************************************************************************)
(* AnchorSpec: retry and edit applied once, at every display index, to a   *)
(* stored transcript of completed turns whose user messages carry no       *)
(* attachment, one image, or a text file and an image; the stream that     *)
(* the workflow hands off to follows.                                      *)
(***************************************************************************)
CompletedReply == [role |-> "assistant", content |-> <<"a">>]

StoredTurn(f) == <<UserMessage(<<"Hi">>, f), CompletedReply>>

StoredTranscripts ==
    {<<>>} \cup {StoredTurn(f) : f \in Uploads}
           \cup {StoredTurn(f) \o StoredTurn(g) : f \in Uploads, g \in Uploads}

AnchorInit ==
    /\ chats \in {<<[id |-> 1, title |-> <<>>, history |-> h]>> : h \in StoredTranscripts}
    /\ chat_index = 0
    /\ chat_title = chats[1].title
    /\ chat_history = chats[1].id
    /\ is_streaming = FALSE
    /\ chains = [c \in ChainIds |-> NoChain]
    /\ nchains = 0
    /\ nlists = 1
    /\ controls = AllEnabled
    /\ workflow = [c \in ChainIds |-> NoWorkflow]
    /\ stop_workflow = NoStopWorkflow

AnchorNext ==
    \/ nchains = 0 /\ \E i \in DisplayIndices : retry(i)
    \/ nchains = 0 /\ \E i \in DisplayIndices, v \in EditTexts : edit(i, v)
    \/ StreamStep(ShortScriptIds)

AnchorSpec == AnchorInit /\ [][AnchorNext]_vars

(***************************************************************************)
(* SessionSpec: the session operations of the left sidebar at any time,    *)
(* before, during and after one stream started by new_message.             *)
(***************************************************************************)
RenameEvent == \E i \in ChatIndices, t \in RenameTitles : rename_chat(i, t)

SessionNext ==
    \/ nchains = 0 /\ \E t \in UserTexts : new_message(t, <<>>)
    \/ SessionEvent
    \/ RenameEvent
    \/ StreamStep(ShortScriptIds)

SessionSpec == Init /\ [][SessionNext]_vars

(***************************************************************************)
(* IndexSpec: SessionSpec with select_chat and delete_chat also given the  *)
(* indices next to the valid ones, -2, -1 and len(chats).  A behaviour is  *)
(* followed up to the first operation that leaves chat_index outside       *)
(* 0..len(chats)-1.                                                        *)
(***************************************************************************)
AnyIndices == -2..Len(chats)

ValidCurrent == chat_index \in ChatIndices

IndexNext ==
    \/ ValidCurrent /\ nchains = 0 /\ \E t \in UserTexts : new_message(t, <<>>)
    \/ ValidCurrent /\ new_chat
    \/ ValidCurrent /\ \E i \in AnyIndices : select_chat(i)
    \/ ValidCurrent /\ \E i \in AnyIndices : delete_chat(i)
    \/ ValidCurrent /\ RenameEvent
    \/ ValidCurrent /\ StreamStep(ShortScriptIds)

IndexSpec == Init /\ [][IndexNext]_vars

(***************************************************************************)
(* TagSpec: one new_message and its stream, whose content increments spell *)
(* "<think>r</think>a" or "<think>r</think> a", split at every point.      *)
(***************************************************************************)
TagNext ==
    \/ nchains = 0 /\ \E t \in UserTexts : new_message(t, <<>>)
    \/ StreamStep(TagScriptIds)

TagSpec == Init /\ [][TagNext]_vars

(***************************************************************************)
(* MixedSpec: one new_message and its stream, whose response carries       *)
(* reasoning on the thinking channel and then content, plain or beginning  *)
(* with a "<think>" block.                                                 *)
(***************************************************************************)
MixedNext ==
    \/ nchains = 0 /\ \E t \in UserTexts : new_message(t, <<>>)
    \/ StreamStep(MixedScriptIds)

MixedSpec == Init /\ [][MixedNext]_vars

(***************************************************************************)
(* WorkflowSpec: the workflows in full.  new_message is followed by        *)
(* enable_components(False), stream_chat, update_chat_selector and         *)
(* enable_components(True); the stop event by update_chat_selector and     *)
(* enable_components(True).  The user sends a message when no stream_chat  *)
(* is pending or running, and stops and renames the current chat to        *)
(* "New Chat" at any time.  The other specifications leave these steps     *)
(* out: they change the sidebar, and the title of a chat named "New Chat"  *)
(* only.                                                                   *)
(***************************************************************************)
WorkflowNext ==
    \/ Idle /\ \E t \in UserTexts : new_message(t, <<>>)
    \/ stop_click
    \/ \E t \in SentinelTitles : rename_chat(chat_index, t)
    \/ \E c \in ChainIds : DisableStep(c)
    \/ \E c \in ChainIds, s \in PlainScriptIds :
          workflow[c].pc = "disabled" /\ StreamStart(c, s)
    \/ \E c \in ChainIds, k \in ChunkLens : StreamChunk(c, k)
    \/ \E c \in ChainIds : StreamEnd(c)
    \/ \E c \in ChainIds : StreamRaise(c)
    \/ \E c \in ChainIds : AfterError(c)
    \/ \E c \in ChainIds, r \in SummaryReplies : SelectorStep(c, r)
    \/ \E c \in ChainIds : EnableStep(c)
    \/ \E r \in SummaryReplies : StopSelectorStep(r)
    \/ StopEnableStep

WorkflowSpec == Init /\ [][WorkflowNext]_vars

(***************************************************************************)
(* StoreSpec: the session operations with valid indices at any time,       *)
(* around submissions, retries and edits that run their whole workflow,    *)
(* title generation included.  The first session starts empty or with one *)
(* stored turn; a behaviour has one submission, retry or edit.             *)
(***************************************************************************)
StoreTitles == RenameTitles \cup SentinelTitles

StoreInit ==
    /\ chats \in {<<[id |-> 1, title |-> <<>>, history |-> h]>> :
                      h \in {<<>>} \cup {StoredTurn(f) : f \in NoUploads}}
    /\ chat_index = 0
    /\ chat_title = chats[1].title
    /\ chat_history = chats[1].id
    /\ is_streaming = FALSE
    /\ chains = [c \in ChainIds |-> NoChain]
    /\ nchains = 0
    /\ nlists = 1
    /\ controls = AllEnabled
    /\ workflow = [c \in ChainIds |-> NoWorkflow]
    /\ stop_workflow = NoStopWorkflow

StoreNext ==
    \/ nchains = 0 /\ UserEvent(NoUploads)
    \/ SessionEvent
    \/ \E i \in ChatIndices, t \in StoreTitles : rename_chat(i, t)
    \/ \E c \in ChainIds : DisableStep(c)
    \/ \E c \in ChainIds, s \in PlainScriptIds :
          workflow[c].pc = "disabled" /\ StreamStart(c, s)
    \/ \E c \in ChainIds, k \in ChunkLens : StreamChunk(c, k)
    \/ \E c \in ChainIds : StreamEnd(c)
    \/ \E c \in ChainIds : StreamRaise(c)
    \/ \E c \in ChainIds : AfterError(c)
    \/ \E c \in ChainIds, r \in SummaryReplies : SelectorStep(c, r)
    \/ \E c \in ChainIds : EnableStep(c)

StoreSpec == StoreInit /\ [][StoreNext]_vars

\* the display index i resolves to a user message of h
ValidAnchor(h, i) ==
    LET r == FindIndex(h, 0, i)
    IN  r.ok /\ r.index \in UserRaw(h)

(***************************************************************************)
(* AlternationSpec: from a stored transcript of zero, one or two completed *)
(* turns, submissions, retries and edits at any time, stop at any time;    *)
(* retry and edit are given the display index of a user text bubble.       *)
(***************************************************************************)
AnchoredEvent ==
    \/ \E t \in UserTexts, f \in NoUploads : new_message(t, f)
    \/ \E i \in DisplayIndices : ValidAnchor(History, i) /\ retry(i)
    \/ \E i \in DisplayIndices, v \in EditTexts : ValidAnchor(History, i) /\ edit(i, v)

AlternationNext ==
    \/ AnchoredEvent
    \/ stop_stream_chat
    \/ StreamStep(PlainScriptIds)

AlternationSpec == AnchorInit /\ [][AlternationNext]_vars

(***************************************************************************)
(* TitleRaceSpec: WorkflowSpec with the summarization call of              *)
(* update_chat_selector as a step of its own, and the session operations   *)
(* of the sidebar while their controls are enabled; a behaviour has one   *)
(* submission.                                                             *)
(***************************************************************************)
TitleRaceNext ==
    \/ nchains = 0 /\ \E t \in UserTexts : new_message(t, <<>>)
    \/ stop_click
    \/ \E t \in SentinelTitles : rename_chat(chat_index, t)
    \/ controls.new_btn /\ new_chat
    \/ \E i \in ChatIndices : controls.chat_selector /\ select_chat(i)
    \/ \E i \in ChatIndices : controls.chat_selector /\ delete_chat(i)
    \/ \E c \in ChainIds : DisableStep(c)
    \/ \E c \in ChainIds, s \in PlainScriptIds :
          workflow[c].pc = "disabled" /\ StreamStart(c, s)
    \/ \E c \in ChainIds, k \in ChunkLens : StreamChunk(c, k)
    \/ \E c \in ChainIds : StreamEnd(c)
    \/ \E c \in ChainIds : SelectorCall(c)
    \/ \E c \in ChainIds, r \in SummaryReplies : SelectorReturn(c, r)
    \/ \E c \in ChainIds, r \in SummaryReplies :
          chat_title # NewChatTitle /\ SelectorStep(c, r)
    \/ \E c \in ChainIds : EnableStep(c)
    \/ StopSelectorCall
    \/ \E r \in SummaryReplies : StopSelectorReturn(r)
    \/ \E r \in SummaryReplies : chat_title # NewChatTitle /\ StopSelectorStep(r)
    \/ StopEnableStep

TitleRaceSpec == Init /\ [][TitleRaceNext]_vars

(***************************************************************************)
(* Properties.                                                             *)
(***************************************************************************)
\* the placeholder that the handler of chain c appended, where it is now
HasOpen(c) ==
    /\ chains[c].open[1] # 0
    /\ \E i \in 1..Len(chats) :
          chats[i].id = chains[c].open[1] /\ chains[c].open[2] <= Len(chats[i].history)
OpenHistory(c) ==
    chats[CHOOSE i \in 1..Len(chats) : chats[i].id = chains[c].open[1]].history
OpenMsg(c) == OpenHistory(c)[chains[c].open[2]]

\* C1 (as claimed): single-flight. At no reachable state are two stream_chat
\* runs in their chunk loop for the same transcript.
C1_SingleFlight ==
    \A c, d \in ChainIds :
        (c # d /\ chains[c].pc = "loop" /\ chains[d].pc = "loop")
            => chains[c].open[1] # chains[d].open[1]

\* C2 (as claimed): once stop_stream_chat has run while a stream_chat run is
\* in its chunk loop, that run applies no further increment, whatever
\* operations follow the stop.
C2_StoppedRunAppliesNothing ==
    [][\A c \in ChainIds :
          (chains[c].stopped /\ chains[c].pc = "loop")
              => chains'[c].off = chains[c].off]_vars

\* C3 (as claimed): every hand-off to stream_chat ends with is_streaming
\* false. Stated on the final result: when every chain that was started has
\* ended (its response exhausted, raised or interrupted), is_streaming is false.
C3_EndedImpliesNotStreaming ==
    (nchains > 0 /\ Idle) => ~is_streaming

Completed(c) == chains[c].pc = "done" /\ chains[c].outcome = "completed"
Failed(c) == chains[c].pc = "done" /\ chains[c].outcome = "failed"
Interrupted(c) == chains[c].pc = "done" /\ chains[c].outcome = "interrupted"
Last == History[Len(History)]
\* the atoms of its response that chain c has applied
AppliedAtoms(c) == SubSeq(Scripts[chains[c].script], 1, chains[c].off)

\* C4 (as claimed): thinking-tag round trip. Content increments that together
\* spell <think>r</think>a, split at arbitrary points, end with thinking = r
\* and content = a.
C4_TagRoundTrip ==
    \A c \in ChainIds :
        (Completed(c) /\ chains[c].script = 2)
            => /\ OpenMsg(c).content = <<"a">>
               /\ "thinking" \in DOMAIN OpenMsg(c)
               /\ OpenMsg(c).thinking = <<"r">>

\* C5: when the response raises after any number of increments, the open
\* message's content is exactly the error marker, is_streaming is false and
\* the run has emitted exactly one warning.
C5_ErrorPath ==
    \A c \in ChainIds :
        Failed(c)
            => /\ OpenMsg(c).content = ErrorMarker
               /\ ~is_streaming
               /\ chains[c].warnings = 1

C5_Witness ==
    \E c \in ChainIds :
        /\ Failed(c)
        /\ chains[c].off > 0
        /\ OpenMsg(c).content = ErrorMarker
        /\ chains[c].warnings = 1

\* C6 (as claimed): after a generation error the final assistant message
\* carries none of the thinking text accumulated before the failure.
C6_ErrorDiscardsThinking ==
    \A c \in ChainIds : Failed(c) => ~Truthy(OpenMsg(c), "thinking")

\* C6 (amended): the Failed transition replaces only the content by the error
\* marker; the thinking accumulated before the failure is kept as it is, and
\* the end of the run removes the field only when it is empty.
C6_ErrorKeepsThinking ==
    [][\A c \in ChainIds :
          /\ (chains[c].pc = "loop" /\ chains'[c].pc = "failed")
                => History' = ReplaceLast(History, [Last EXCEPT !.content = ErrorMarker])
          /\ (chains[c].pc = "failed" /\ chains'[c].pc = "done")
                => /\ Last'.content = ErrorMarker
                   /\ IF Last.thinking # <<>>
                      THEN Last' = Last
                      ELSE Last' = [role |-> "assistant", content |-> ErrorMarker]]_vars

C6_Witness ==
    \E c \in ChainIds :
        /\ Failed(c)
        /\ OpenMsg(c).content = ErrorMarker
        /\ Truthy(OpenMsg(c), "thinking")
        /\ OpenMsg(c).thinking = Channel("t", AppliedAtoms(c))

\* C7: a run that ends (completed, interrupted, failed or skipped by the
\* failsafe) with an empty thinking leaves the message without a thinking
\* field; a non-empty thinking is kept unchanged.
C7_EmptyThinkingCleanup ==
    [][\A c \in ChainIds :
          (chains[c].pc \in {"start", "loop", "failed"} /\ chains'[c].pc = "done")
              => /\ Len(History') = Len(History)
                 /\ IF Last.thinking = <<>>
                    THEN /\ "thinking" \notin DOMAIN Last'
                         /\ \A k \in DOMAIN Last' : Last'[k] = Last[k]
                    ELSE Last' = Last]_vars

C7_Witness ==
    \E c, d \in ChainIds :
        /\ Completed(c) /\ chains[c].off > 0 /\ "thinking" \notin DOMAIN OpenMsg(c)
        /\ chains[d].pc = "done"

\* C8: when the run finds is_streaming false at its poll, the open message
\* keeps exactly the content and thinking applied so far (no increment is
\* added, nothing is discarded, no error marker is written) and is_streaming
\* is false afterwards.
C8_InterruptedKeepsContent ==
    [][\A c \in ChainIds :
          (chains[c].pc = "loop" /\ chains'[c].outcome = "interrupted")
              => /\ ~is_streaming'
                 /\ chains'[c].pc = "done"
                 /\ chains'[c].off = chains[c].off
                 /\ Len(History') = Len(History)
                 /\ Last'.content = Last.content
                 /\ IF Last.thinking # <<>>
                    THEN Last' = Last
                    ELSE "thinking" \notin DOMAIN Last']_vars

C8_Witness ==
    \E c \in ChainIds :
        /\ Interrupted(c)
        /\ chains[c].off > 0
        /\ chains[c].off < Len(Scripts[chains[c].script])
        /\ Truthy(OpenMsg(c), "thinking")
        /\ ~is_streaming

\* C9: new_message(text, no attachments) followed by a stream of answer deltas
\* only that ends normally leaves the prior transcript, then the user message,
\* then one assistant message whose content is the deltas in order, with no
\* thinking key, and is_streaming false. In three parts: new_message appends the
\* user message and the placeholder to the unchanged transcript and sets
\* is_streaming; no step of the run changes the length of the transcript or a
\* message other than the last; the run ends with the last message as claimed.
C9_PlainTurn ==
    /\ [][\A c \in ChainIds :
             (chains[c].pc = "idle" /\ chains'[c].pc = "start"
              /\ chains'[c].kind = "new_message")
                 => /\ Len(History') = Len(History) + 2
                    /\ SubSeq(History', 1, Len(History)) = History
                    /\ Last'  = Placeholder
                    /\ History'[Len(History) + 1].role = "user"
                    /\ History'[Len(History) + 1].content \in UserTexts
                    /\ is_streaming']_vars
    /\ [][\A c \in ChainIds :
             (InFlight(c) /\ chains'[c] # chains[c])
                 => /\ Len(History') = Len(History)
                    /\ SubSeq(History', 1, Len(History) - 1)
                          = SubSeq(History, 1, Len(History) - 1)]_vars
    /\ [](\A c \in ChainIds :
             (Completed(c) /\ chains[c].kind = "new_message" /\ chains[c].script = 1)
                 => /\ Last = [role |-> "assistant", content |-> Channel("c", PlainScript)]
                    /\ ~is_streaming)

C9_Witness ==
    \E c \in ChainIds :
        /\ Completed(c)
        /\ chains[c].kind = "new_message"
        /\ chains[c].script = 1
        /\ Len(History) = 4
        /\ History[4] = [role |-> "assistant", content |-> <<"a", "b">>]
        /\ History[3] = [role |-> "user", content |-> <<"Hi">>]

\* C10 (as claimed): with an explicit thinking channel and no tags, after the
\* stream ends thinking is every thinking delta in order and content is every
\* answer delta in order, for every increment sequence.
C10_ChannelsSeparated ==
    \A c \in ChainIds :
        (Completed(c) /\ chains[c].script = 3)
            => /\ OpenMsg(c).content = Channel("c", ChannelScript)
               /\ "thinking" \in DOMAIN OpenMsg(c)
               /\ OpenMsg(c).thinking = Channel("t", ChannelScript)

\* C11: truncation correctness. Whenever retry is given the display index of the
\* text bubble of raw message k, a user message with no attachments, the
\* transcript becomes the original messages 0..k unchanged followed by one fresh
\* empty assistant message (k+2 messages), and is_streaming is true.
C11_RetryTruncates ==
    [][\A k \in UserRaw(History) :
          (ExtraSlots(History[k + 1]) = 0 /\ retry(TextBubble(History, k)))
              => /\ Len(History') = k + 2
                 /\ History' = SubSeq(History, 1, k + 1) \o <<Placeholder>>
                 /\ is_streaming']_vars

C11_Witness ==
    \E c \in ChainIds :
        /\ chains[c].kind = "retry"
        /\ chains[c].pc = "start"
        /\ is_streaming
        /\ Len(History) = 4
        /\ History[4] = Placeholder
        /\ History[3] = [role |-> "user", content |-> <<"Hi">>]
        /\ Truthy(History[1], "files")

\* C12: the display-index mapping is exact. For every transcript and every raw
\* index r of a user message, the index loop of retry/edit applied to the
\* position of r's text bubble in chat_history_display() resolves to r.
C12_IndexMappingExact ==
    \A r \in UserRaw(History) :
        FindIndex(History, 0, TextBubble(History, r)) = [ok |-> TRUE, index |-> r]

C12_Witness ==
    \E c \in ChainIds :
        /\ chains[c].kind \in {"retry", "edit"}
        /\ chains[c].pc = "start"
        /\ Len(History) = 4
        /\ History[4] = Placeholder
        /\ Truthy(History[3], "files")
        /\ Truthy(History[1], "images")
        /\ TextBubble(History, 2) = 5

\* C13 (as claimed): a display index that resolves past the end of the
\* transcript or to a message that is not a user message makes retry and edit
\* fail without truncating the transcript and without starting a stream.
C13_InvalidAnchorRejected ==
    [][\A i \in DisplayIndices :
          (~ValidAnchor(History, i)
           /\ (retry(i) \/ \E v \in EditTexts : edit(i, v)))
              => /\ chats' = chats
                 /\ is_streaming' = is_streaming]_vars

\* C14: whenever edit is given an anchor that resolves to user message k and the
\* text t, the transcript becomes messages 0..k-1 unchanged, then message k
\* with its content replaced by t (role and attachments unchanged), then one
\* fresh empty assistant message (k+2 messages), and is_streaming is true.
C14_EditFrame ==
    [][\A k \in UserRaw(History), t \in EditTexts :
          edit(TextBubble(History, k), t)
              => /\ Len(History') = k + 2
                 /\ SubSeq(History', 1, k) = SubSeq(History, 1, k)
                 /\ History'[k + 1] = [History[k + 1] EXCEPT !.content = t]
                 /\ DOMAIN History'[k + 1] = DOMAIN History[k + 1]
                 /\ History'[k + 2] = Placeholder
                 /\ is_streaming']_vars

C14_Witness ==
    \E c \in ChainIds :
        /\ chains[c].kind = "edit"
        /\ chains[c].pc = "start"
        /\ is_streaming
        /\ Len(History) = 4
        /\ History[4] = Placeholder
        /\ History[3].content = <<"Ed">>
        /\ Truthy(History[3], "images")
        /\ History[1].content = <<"Hi">>

\* C15 (as claimed): the messages stream_chat passes to the generation
\* capability are the transcript without the open assistant message; the last
\* message of the request is never the placeholder that new_message, retry or
\* edit appended.
C15_RequestExcludesPlaceholder ==
    \A c \in ChainIds :
        chains[c].pc = "loop"
            => /\ chains[c].request # <<>>
               /\ chains[c].request[Len(chains[c].request)] # Placeholder

\* the message is an assistant message that a run is still to close
InProgress(m) == m.role = "assistant" /\ "thinking" \in DOMAIN m

\* C16 (as claimed): in every reachable state in which is_streaming is true, the
\* transcript being streamed into (self.chat_history) is non-empty and its last
\* element is the in-progress assistant message.
C16_StreamingHasOpenMessage ==
    is_streaming => (History # <<>> /\ InProgress(Last))

\* C17 (as claimed): session isolation. A step of the stream that was started
\* for a session (the one whose transcript holds the placeholder the handler
\* appended) leaves the transcript of every other session unchanged, also when
\* select_chat, new_chat or delete_chat has changed the current session.
C17_SessionIsolation ==
    [][\A c \in ChainIds :
          (InFlight(c) /\ chains[c].open[1] # 0 /\ chains'[c] # chains[c])
              => \A i \in 1..Len(chats) :
                     chats[i].id # chains[c].open[1]
                         => \E j \in 1..Len(chats') : chats'[j] = chats[i]]_vars

\* C18: the session list is never empty, and deleting the only remaining
\* session leaves exactly one session, a fresh empty one, which is current.
C18_SessionListNeverEmpty ==
    /\ [](Len(chats) >= 1)
    /\ [][(Len(chats) = 1 /\ delete_chat(0))
             => /\ Len(chats') = 1
                /\ chats'[1].id # chats[1].id
                /\ chats'[1].history = <<>>
                /\ chats'[1].title = <<>>
                /\ chat_index' = 0
                /\ chat_history' = chats'[1].id
                /\ chat_title' = <<>>]_vars

C18_Witness ==
    /\ Len(chats) = 1
    /\ chats[1] = [id |-> 2, title |-> <<>>, history |-> <<>>]
    /\ chat_index = 0
    /\ chat_history = 2
    /\ nchains > 0

C20_DeleteOtherKeepsCurrent ==
    /\ [][\A d \in ChatIndices :
             (d # chat_index /\ delete_chat(d))
                 => /\ chat_history' = chat_history
                    /\ chat_title' = chat_title
                    /\ chats'[chat_index' + 1] = chats[chat_index + 1]
                    /\ chains' = chains
                    /\ is_streaming' = is_streaming]_vars
    /\ [][\A c \in ChainIds :
             (chains[c].pc = "loop" /\ chains'[c].pc = "loop"
              /\ chains'[c].off > chains[c].off /\ chains[c].open[1] = chat_history)
                 => /\ Len(History') = Len(History)
                    /\ History'[chains[c].open[2]] # History[chains[c].open[2]]]_vars

C20_Witness ==
    \E c \in ChainIds :
        /\ Completed(c)
        /\ chains[c].open[1] = chat_history
        /\ Len(chats) = 1
        /\ nlists = 2
        /\ chat_history = 2
        /\ History = <<[role |-> "user", content |-> <<"Hi">>],
                       [role |-> "assistant", content |-> <<"a", "b">>]>>

\* C21: new_chat prepends: afterwards the list is one longer, index 0 holds a
\* new session with an empty transcript and the empty title, that session
\* is current (index 0, its transcript, its title), and every session that
\* existed before is unchanged, one position further down, in the same order.
C21_NewChatPrepends ==
    [][new_chat
          => /\ Len(chats') = Len(chats) + 1
             /\ chats'[1].history = <<>>
             /\ chats'[1].title = <<>>
             /\ \A i \in 1..Len(chats) : chats'[1].id # chats[i].id
             /\ Tail(chats') = chats
             /\ chat_index' = 0
             /\ chat_history' = chats'[1].id
             /\ chat_title' = <<>>]_vars

C21_Witness ==
    /\ Len(chats) = 2
    /\ chats[1] = [id |-> 2, title |-> <<>>, history |-> <<>>]
    /\ chats[2].id = 1
    /\ chats[2].title = <<"T">>
    /\ Len(chats[2].history) = 2
    /\ chat_index = 0
    /\ chat_history = 2
    /\ chat_title = <<>>

\* C22 (as claimed): select_chat with an index outside 0..n-1, negative
\* indices included, leaves the session list, the current index, the current
\* transcript and the current title unchanged.
C22_InvalidSelectRejected ==
    [][\A i \in AnyIndices \ ChatIndices :
          select_chat(i) => UNCHANGED <<chats, chat_index, chat_history, chat_title>>]_vars

\* C23 (as claimed): delete_chat with an index outside 0..n-1 changes neither
\* the session list nor the current index, transcript or title.
C23_InvalidDeleteRejected ==
    [][\A d \in AnyIndices \ ChatIndices :
          delete_chat(d) => UNCHANGED <<chats, chat_index, chat_history, chat_title>>]_vars

\* C24: title generation is non-destructive. A run of update_chat_selector,
\* after stream_chat or after stop_stream_chat, leaves the session list as long
\* as it was and every transcript as it was; the summarization instruction is
\* the last message of the request it sends and is in no transcript.
C24_TitleGenerationNonDestructive ==
    /\ [][((\E c \in ChainIds, r \in SummaryReplies : SelectorStep(c, r))
             \/ (\E r \in SummaryReplies : StopSelectorStep(r)))
            => /\ Len(chats') = Len(chats)
               /\ \A i \in 1..Len(chats) :
                     /\ chats'[i].id = chats[i].id
                     /\ chats'[i].history = chats[i].history
               /\ chat_history' = chat_history
               /\ chat_index' = chat_index]_vars
    /\ [][\A c \in ChainIds :
             (workflow[c].pc = "disabled" /\ workflow'[c].pc = "titled"
              /\ workflow'[c].title_call # "none")
                 => workflow'[c].summary = History \o <<SummaryInstruction>>]_vars
    /\ [](\A i \in 1..Len(chats) : \A j \in 1..Len(chats[i].history) :
             chats[i].history[j] # SummaryInstruction)

C24_Witness ==
    \E c \in ChainIds :
        /\ workflow[c].pc = "titled"
        /\ workflow[c].title_call = "ok"
        /\ chat_title = <<"S">>
        /\ chats[1].title = <<"S">>
        /\ History = <<[role |-> "user", content |-> <<"Hi">>],
                       [role |-> "assistant", content |-> <<"a", "b">>]>>
        /\ workflow[c].summary = History \o <<SummaryInstruction>>

\* C25 (as claimed): when update_chat_selector runs after a completed turn, a
\* summarization call is made if the current session has the empty title that
\* new_chat gave it, and for a session that has a title no call is made and
\* the title is left unchanged.
C25_SummaryExactlyWhenUntitled ==
    [][\A c \in ChainIds :
          (Completed(c) /\ workflow[c].pc = "disabled" /\ workflow'[c].pc = "titled")
              => /\ chat_title = <<>> => workflow'[c].title_call # "none"
                 /\ chat_title \notin {<<>>, NewChatTitle}
                       => workflow'[c].title_call = "none" /\ chat_title' = chat_title]_vars

\* C26 (as claimed): a failure of the summarization call does not propagate:
\* no exception leaves update_chat_selector.
C26_SummaryFailureSwallowed ==
    /\ \A c \in ChainIds : ~workflow[c].selector_raised
    /\ ~stop_workflow.selector_raised

\* C27 (as claimed): stop_stream_chat entered with is_streaming already false
\* is a no-op: it changes no transcript, no title and not is_streaming, it
\* yields no transcript snapshot, and the steps that follow it change no
\* transcript and no title.
C27_IdempotentStop ==
    /\ [][(~is_streaming /\ stop_click)
             => UNCHANGED <<chats, chat_title, is_streaming>>]_vars
    /\ []((stop_workflow.pc # "none" /\ ~stop_workflow.was_streaming)
             => stop_workflow.snapshots = 0)
    /\ [][\A r \in SummaryReplies :
             (~stop_workflow.was_streaming /\ StopSelectorStep(r))
                 => UNCHANGED <<chats, chat_title>>]_vars

\* C28 (as claimed): while is_streaming is true and a stream_chat run is in its
\* chunk loop, the chat selector and the New Chat button are disabled.
C28_ControlsDisabledWhileStreaming ==
    (is_streaming /\ \E c \in ChainIds : chains[c].pc = "loop")
        => controls = enable_components(FALSE)

\* C29 (as claimed): every delta that a stream_chat run applies modifies only
\* the assistant message that the handler of its chain opened; the session
\* list, the length of every transcript and every other message are unchanged.
C29_DeltaOnlyInOpenMessage ==
    [][\A c \in ChainIds :
          (chains[c].pc = "loop" /\ chains'[c].pc = "loop"
           /\ chains'[c].off > chains[c].off)
              => /\ Len(chats') = Len(chats)
                 /\ \A i \in 1..Len(chats) :
                       /\ chats'[i].id = chats[i].id
                       /\ Len(chats'[i].history) = Len(chats[i].history)
                       /\ \A j \in 1..Len(chats[i].history) :
                             <<chats[i].id, j>> # chains[c].open
                                 => chats'[i].history[j] = chats[i].history[j]]_vars

\* C30: closing-tag detection. When a content increment is processed in
\* thinking mode and the accumulated thinking is some text, then "</think>",
\* then nothing but whitespace, thinking becomes that text (tag and trailing
\* whitespace removed) and thinking mode is switched off; otherwise thinking is
\* the accumulated text and the mode stays on. Once the mode is off, every
\* increment is appended to content and thinking is not touched again.
C30_ClosingTagDetectedOnce ==
    /\ [][\A c \in ChainIds :
             (chains[c].pc = "loop" /\ chains'[c].pc = "loop"
              /\ chains'[c].off > chains[c].off /\ chains[c].is_thinking)
                 => LET delta == Chunk(chains[c].script, chains[c].off,
                                       chains'[c].off - chains[c].off).content
                        acc == Last.thinking \o delta
                        ends == {n \in 0..Len(acc) :
                                    /\ n + CloseTagLen <= Len(acc)
                                    /\ SubSeq(acc, n + 1, n + CloseTagLen) = CloseTag
                                    /\ \A k \in (n + CloseTagLen + 1)..Len(acc) :
                                          acc[k] \in Whitespace}
                        after == History'[Len(History')]
                    IN  /\ after.content = Last.content
                        /\ IF ends # {}
                           THEN /\ after.thinking \in {SubSeq(acc, 1, n) : n \in ends}
                                /\ ~chains'[c].is_thinking
                           ELSE /\ after.thinking = acc
                                /\ chains'[c].is_thinking]_vars
    /\ [][\A c \in ChainIds :
             (chains[c].pc = "loop" /\ chains'[c].pc = "loop"
              /\ chains'[c].off > chains[c].off
              /\ ~chains[c].is_thinking /\ ~chains'[c].is_thinking)
                 => LET delta == Chunk(chains[c].script, chains[c].off,
                                       chains'[c].off - chains[c].off).content
                        after == History'[Len(History')]
                    IN  /\ after.content = Last.content \o delta
                        /\ after.thinking = Last.thinking]_vars

C30_Witness ==
    \E c \in ChainIds :
        /\ Completed(c)
        /\ chains[c].script = 4
        /\ Last.thinking = <<"r">>
        /\ Last.content = <<"a">>

\* C31 (as claimed): a content increment switches the run into thinking mode
\* only when no thinking has been recorded for the open message, and the
\* thinking recorded before the increment is still the beginning of the
\* thinking after it.
C31_SwitchKeepsPriorThinking ==
    [][\A c \in ChainIds :
          (chains[c].pc = "loop" /\ chains'[c].pc = "loop"
           /\ chains'[c].off > chains[c].off
           /\ ~chains[c].is_thinking /\ chains'[c].is_thinking)
              => /\ Last.thinking = <<>>
                 /\ Prefix(History'[Len(History')].thinking, Len(Last.thinking))
                       = Last.thinking]_vars

\* Tags in a text, and the text without a set of its positions
OpensAt(t, i) ==
    i + OpenTagLen - 1 <= Len(t) /\ SubSeq(t, i, i + OpenTagLen - 1) = OpenTag
ClosesAt(t, j) ==
    j + CloseTagLen - 1 <= Len(t) /\ SubSeq(t, j, j + CloseTagLen - 1) = CloseTag

RECURSIVE Without(_, _, _)
Without(t, removed, k) ==
    IF k > Len(t) THEN <<>>
    ELSE (IF k \in removed THEN <<>> ELSE <<t[k]>>) \o Without(t, removed, k + 1)

\* t from its first to its last character that is not whitespace
Trimmed(t) ==
    LET solid == {k \in 1..Len(t) : t[k] \notin Whitespace}
    IN  IF solid = {} THEN <<>>
        ELSE SubSeq(t, CHOOSE k \in solid : \A m \in solid : k <= m,
                       CHOOSE k \in solid : \A m \in solid : m <= k)

\* positions from an opening tag to the end of the first closing tag after it
LazyBlocks(t) ==
    LET opens == {i \in 1..Len(t) : OpensAt(t, i)}
        closes == {j \in 1..Len(t) : ClosesAt(t, j)}
        After(i) == {j \in closes : j >= i + OpenTagLen}
    IN  {k \in 1..Len(t) :
            \E i \in opens : \E j \in After(i) :
                /\ \A m \in After(i) : j <= m
                /\ i <= k /\ k <= j + CloseTagLen - 1}

\* C32 (as claimed): the generated title is the summarization response without
\* the text from its first "<think>" to its last "</think>", trimmed, and it is
\* stored as the current title and as the title of the current session.
C32_TitleGreedyStripped ==
    [][\A c \in ChainIds, r \in SummaryReplies :
          (chat_title = NewChatTitle /\ r.ok /\ SelectorStep(c, r))
              => LET t == r.content
                     \* from the first opening tag to the end of the last closing tag
                     greedy ==
                         {k \in 1..Len(t) :
                             \E i \in 1..k, j \in 1..Len(t) :
                                 /\ OpensAt(t, i) /\ \A m \in 1..(i - 1) : ~OpensAt(t, m)
                                 /\ ClosesAt(t, j)
                                 /\ \A m \in (j + 1)..Len(t) : ~ClosesAt(t, m)
                                 /\ j >= i + OpenTagLen
                                 /\ k <= j + CloseTagLen - 1}
                 IN  /\ chat_title' = Trimmed(Without(t, greedy, 1))
                     /\ chats'[chat_index + 1].title = chat_title']_vars

\* C32 (amended): the generated title is the summarization response without
\* every block that runs from a "<think>" to the first "</think>" after it,
\* trimmed; text between two blocks is kept. It is stored as the current title
\* and as the title of the current session.
C32_TitleLazyStripped ==
    [][\A c \in ChainIds, r \in SummaryReplies :
          (chat_title = NewChatTitle /\ r.ok /\ SelectorStep(c, r))
              => /\ chat_title' = Trimmed(Without(r.content, LazyBlocks(r.content), 1))
                 /\ chats'[chat_index + 1].title = chat_title']_vars

C32_Witness ==
    \E c \in ChainIds :
        /\ workflow[c].pc = "titled"
        /\ workflow[c].title_call = "ok"
        /\ chat_title = <<"U">>
        /\ chats[chat_index + 1].title = <<"U">>

\* C33: failsafe. When stop_stream_chat has run after the handler that set
\* is_streaming and before stream_chat starts, the stream_chat run issues no
\* generation request and never enters its chunk loop; it leaves the
\* placeholder with empty content and without its empty thinking field,
\* leaves is_streaming false and reaches its final snapshot.
C33_FailsafeSkipsRequest ==
    [][\A c \in ChainIds :
          (chains[c].pc = "start" /\ HasOpen(c) /\ ~is_streaming
           /\ chains'[c] # chains[c])
              => /\ chains'[c].pc = "done"
                 /\ chains'[c].outcome = "skipped"
                 /\ chains'[c].request = <<>>
                 /\ chains'[c].off = 0
                 /\ ~is_streaming'
                 /\ Len(History') = Len(History)
                 /\ History'[Len(History')] = [role |-> "assistant", content |-> <<>>]]_vars

C33_Witness ==
    \E c \in ChainIds :
        /\ chains[c].pc = "done"
        /\ chains[c].outcome = "skipped"
        /\ ~is_streaming
        /\ History # <<>>
        /\ History[Len(History)] = [role |-> "assistant", content |-> <<>>]

\* C34: store consistency. With valid indices, the current index names a
\* stored session, chat_history is the transcript stored there (the same
\* list, so a retry or edit truncation is a truncation of the stored
\* transcript), and chat_title is the title stored there.
C34_CurrentSessionIsStored ==
    /\ 0 <= chat_index /\ chat_index < Len(chats)
    /\ chat_history = chats[chat_index + 1].id
    /\ chat_title = chats[chat_index + 1].title

\* two sessions, the current one not the first, renamed and truncated by a
\* retry or an edit
C34_Witness ==
    /\ Len(chats) = 2
    /\ chat_index = 1
    /\ chat_title # <<>>
    /\ \E c \in ChainIds : chains[c].kind \in {"retry", "edit"} /\ HasOpen(c)
    /\ chats[2].history # <<>>

\* the messages of h are a user message, an assistant message, a user
\* message, and so on
Alternates(h) ==
    \A k \in 1..Len(h) :
        h[k].role = IF k % 2 = 1 THEN "user" ELSE "assistant"

\* C35: alternation. From transcripts that alternate user and assistant
\* messages, every stored transcript alternates after any sequence of
\* new_message, retry and edit on user text bubbles, stream_chat and
\* stop_stream_chat.
C35_TranscriptsAlternate ==
    \A i \in 1..Len(chats) : Alternates(chats[i].history)

\* a retry or an edit has truncated a transcript of two turns to its first
\* user message, a submission has appended to it while that stream was in
\* flight, and both runs have ended
C35_Witness ==
    /\ Len(History) = 4
    /\ \E c, d \in ChainIds :
          /\ c < d
          /\ chains[c].kind \in {"retry", "edit"}
          /\ chains[c].pc \in {"done", "crashed"}
          /\ chains[d].kind = "new_message"
          /\ chains[d].pc \in {"done", "crashed"}

\* the stored session whose transcript is the list id, if it is still stored
Stored(cs, id) == {i \in 1..Len(cs) : cs[i].id = id}

\* C36 (as claimed): when the summarization call of update_chat_selector
\* returns a title, the title is stored on the session whose transcript was
\* given to the call, also when new_chat, select_chat or delete_chat has
\* changed the current session since the call was issued.
C36_TitleOnSummarizedSession ==
    [][\A r \in SummaryReplies :
          /\ \A c \in ChainIds :
                (r.ok /\ SelectorReturn(c, r))
                    => \A i \in Stored(chats', workflow[c].summarized) :
                          chats'[i].title = TitleFromResponse(r.content)
          /\ (r.ok /\ StopSelectorReturn(r))
                => \A i \in Stored(chats', stop_workflow.summarized) :
                      chats'[i].title = TitleFromResponse(r.content)]_vars

\* C37 (as claimed): in every interleaving of new_message, retry, edit,
\* stop_stream_chat and stream_chat runs, a run that performs its post-stream
\* cleanup finds a last message that still has its thinking field: the run
\* reaches its final snapshot and never ends in a missing-field error.
C37_ThinkingFieldAtCleanup ==
    [][\A c \in ChainIds :
          (InFlight(c) /\ chains'[c].pc \in {"done", "crashed"})
              => /\ History # <<>>
                 /\ "thinking" \in DOMAIN Last
                 /\ chains'[c].pc = "done"]_vars

====
